---- MODULE Spec2Model ----
(***************************************************************************)
(* Model of src/pilot.c: the quadcopter autopilot's boot-time sanity gate  *)
(* (setup, die), the console motor test handler (handle_input), the mode   *)
(* switch (modes_update) and the control mixer (control_update), together  *)
(* with the interrupt contexts that share variables with them.             *)
(*                                                                         *)
(* The main context advances one source line (one access to a variable   *)
(* shared with an interrupt context) per step.  An interrupt is delivered  *)
(* between any two steps taken with interrupts enabled, also between a     *)
(* failed check and the cli() of die(), and between the evaluation of      *)
(* motor[i] and the moment serial_write_dec8 puts it on the console.       *)
(* handle_input is the serial receive callback: it runs with interrupts    *)
(* disabled up to its sei() and writes its state report with interrupts    *)
(* enabled, so further interrupts, another key included, are served inside *)
(* the report.                                                             *)
(*                                                                         *)
(* Several specifications are given over the same variables:               *)
(*   Spec        boot, halt and the main loop under the receiver,          *)
(*               estimator and console interrupts;                         *)
(*   SpecGate    setup() alone, with fairness, for termination;            *)
(*   SpecLoop, SpecNeutral, SpecEase, SpecModes, SpecConsole               *)
(*               the main loop after a passed gate, from wider sets of     *)
(*               stick, attitude, switch and test values.                  *)
(*                                                                         *)
(* Arithmetic: int16_t results are reduced into -32768..32767 (ToInt16),   *)
(* which is what avr-gcc's 16-bit add/sub and a 32-bit host's conversion   *)
(* to int16_t both produce; >> on a signed value is an arithmetic shift;   *)
(* setup's uint32_t len is kept modulo 2^32 as two 16-bit halves.          *)
(***************************************************************************)
EXTENDS Integers, Sequences, FiniteSets, TLC

(***************************************************************************)
(* Bounds of the model (not program constants).                            *)
(***************************************************************************)
MaxIrq == 2
MaxKeys == 2
MaxTicks == 2
MaxModeIrq == 3

(***************************************************************************)
(* Integer helpers.                                                        *)
(***************************************************************************)
ToInt16(x) == ((x + 32768) % 65536) - 32768

ToUint8(x) == x % 256

ToUint16(x) == x % 65536

Asr(x, n) == x \div (2 ^ n)

Bit(m, i) == (m \div (2 ^ i)) % 2

\* A uint32_t is kept as its two 16-bit halves <<high, low>>.
U32(n) == <<n \div 65536, n % 65536>>

\* a + n modulo 2^32, for n in 0 .. 2^31 - 1.
U32Add(a, n) ==
    LET lo == a[2] + (n % 65536)
        hi == a[1] + (n \div 65536) + (lo \div 65536)
    IN <<hi % 65536, lo % 65536>>

\* x * x for x in 0 .. 65535.
U32Sq(x) ==
    LET xh == x \div 256
        xl == x % 256
        t == 2 * xh * xl * 256 + xl * xl
    IN <<xh * xh + (t \div 65536), t % 65536>>

\* a + n does not fit 32 bits.
U32Carry(a, n) ==
    a[1] + (n \div 65536) + ((a[2] + (n % 65536)) \div 65536) >= 65536

U32Le(a, b) == a[1] < b[1] \/ (a[1] = b[1] /\ a[2] <= b[2])

RECURSIVE IsqrtIter(_, _, _)
IsqrtIter(n, r, b) ==
    IF b = 0 THEN r
    ELSE IF U32Le(U32Sq(r + b), n) THEN IsqrtIter(n, r + b, b \div 2)
         ELSE IsqrtIter(n, r, b \div 2)

\* The integer square root of a uint32_t.
isqrt32(n) == IsqrtIter(n, 0, 32768)

Motors == 0 .. 3

(***************************************************************************)
(* Inputs of the boot checks.                                              *)
(***************************************************************************)
MagIds == {2, 3, 255}

AdcPolls == {<<337, 337, 337>>, <<336, 337, 337>>, <<337, 424, 337>>,
             <<337, 337, 0>>}

MagReadings == {<<299, 0, 0>>, <<300, 0, 0>>, <<180, 240, 0>>,
                <<65236, 0, 0>>, <<0, 425, 425>>, <<601, 0, 0>>}

AccSamples == {<<0, 0, 16346>>, <<21123, 21123, 21123>>}

cmps09_mag_calib == <<0, 0, 0>>

(***************************************************************************)
(* State.                                                                  *)
(***************************************************************************)
VARIABLES
    pc,             \* position of the main context in setup / loop / die
    ie,             \* global interrupt enable (sei / cli)
    motor,          \* static uint8_t motor[4]
    ver, cnt, adc_values, len,      \* setup's locals and the gyro readings
    gyro_oob, gyro_polls, mag_len, acc_len, chk_no_signal, chk_throttle,
    halt_at,        \* what the gate observed, kept for the record
    acc_carry,      \* the accelerometer sum has passed 2^32
    ahrs_on,        \* ahrs_init has been called
    started,        \* actuators_start has been called
    actuator, act_by, con_sets,     \* last actuator_set value per motor
    mix_sets,       \* actuator_set calls control_update has made, per motor
    msg_running, msg_error, msg_signal,         \* console messages
    line,           \* the values written since the last end of line
    nreports, report,       \* the lines of values ended, and the last one
    hs,             \* show_state of the handle_input calls that have not
                    \* returned, the innermost last: <<i, a>> with i the
                    \* call of lines 23-27 it is at and a the evaluated
                    \* argument motor[i], -1 before the evaluation
    arg,            \* the same argument in setup's show_state (line 195)
    rx_co_throttle, rx_co_right, rx_cy_right, rx_cy_front,
    rx_gyro_sw, rx_right_pot, rx_no_signal,
    ahrs_pitch, ahrs_pitch_rate, ahrs_roll, ahrs_roll_rate,
    ahrs_yaw, ahrs_yaw_rate,
    modes, prev_sw, set_yaw,
    sw_read, num, old_modes, old_prev_sw,       \* modes_update's reads
    co_right, cy_right, cy_front, cur_pitch, cur_roll, cur_yaw,
    err_pitch, err_roll,    \* dest_pitch, dest_roll after lines 264-265
    dest_pitch, dest_roll,  \* dest_pitch, dest_roll after the easing
    mix,            \* control_update's a, b, c, d after CLAMP
    rx_first,       \* the four channels when line 230 read the first stick
    rx_used,        \* the four channel values the tick computed with
    yaw_in,         \* set_yaw on entry to control_update
    nkeys, last_ch, nticks, hh_base, hh_sum, hh_n,
    nirq            \* interrupts delivered so far

bootv == <<ver, cnt, adc_values, len, gyro_oob, gyro_polls, mag_len, acc_len,
           acc_carry, chk_no_signal, chk_throttle, halt_at>>

runv == <<ahrs_on, started>>

outv == <<msg_running, msg_error, msg_signal, line, nreports, report>>

actv == <<actuator, act_by, con_sets, mix_sets>>

rxv == <<rx_co_throttle, rx_co_right, rx_cy_right, rx_cy_front,
         rx_gyro_sw, rx_right_pot, rx_no_signal>>

ahrsv == <<ahrs_pitch, ahrs_pitch_rate, ahrs_roll, ahrs_roll_rate,
           ahrs_yaw, ahrs_yaw_rate>>

modev == <<modes, prev_sw, sw_read, num, old_modes, old_prev_sw>>

ctlv == <<set_yaw, co_right, cy_right, cy_front, cur_pitch, cur_roll,
          cur_yaw, err_pitch, err_roll, dest_pitch, dest_roll, mix, rx_first,
          rx_used, yaw_in, nticks, hh_base, hh_sum, hh_n>>

conv == <<motor, nkeys, last_ch, hs, arg>>

vars == <<pc, ie, runv, bootv, outv, actv, rxv, ahrsv, modev, ctlv, conv,
          nirq>>

(***************************************************************************)
(* Values the interrupt contexts deliver: RxSmall / AhrsSmall from boot,   *)
(* RxWide / WideAhrs in the run state.                                     *)
(***************************************************************************)
RxChans == {"co_throttle", "co_right", "cy_right", "cy_front",
            "gyro_sw", "right_pot"}

RxSmall == [co_throttle |-> {0, 200}, co_right |-> {0},
            cy_right |-> {0}, cy_front |-> {0},
            gyro_sw |-> {0, 1}, right_pot |-> {0}]

RxWide == [co_throttle |-> {0, 128, 255}, co_right |-> {0, 128, 255},
           cy_right |-> {128, 255}, cy_front |-> {0, 128, 255},
           gyro_sw |-> {0, 1}, right_pot |-> {0, 49, 98}]

AhrsFrame(p, pr, r, rr, y, yr) ==
    [pitch |-> p, pitch_rate |-> pr, roll |-> r, roll_rate |-> rr,
     yaw |-> y, yaw_rate |-> yr]

AhrsSmall == {AhrsFrame(65536 * 2000, 400, -65536 * 300, -8, 32767, 1)}

Chars == {"a", "f", "q", "r", "x"}

\* The keys struck from boot on.
BootChars == {"q", "x"}

(***************************************************************************)
(* modes_update and control_update as functions of what they read.         *)
(***************************************************************************)
MODE_MOTORS_ARMED == 0
MODE_HEADINGHOLD_ENABLE == 1
MODE_PANTILT_ENABLE == 2

RECURSIVE BitAnd(_, _, _)
BitAnd(a, b, i) ==
    IF i < 0 THEN 0
    ELSE Bit(a, i) * Bit(b, i) * (2 ^ i) + BitAnd(a, b, i - 1)

RECURSIVE BitOr(_, _, _)
BitOr(a, b, i) ==
    IF i < 0 THEN 0
    ELSE (IF Bit(a, i) = 1 \/ Bit(b, i) = 1 THEN 2 ^ i ELSE 0)
         + BitOr(a, b, i - 1)

\* modes_update without its early return.
SwitchUnchanged_Never(sw, prev) == FALSE

SwitchUnchanged(sw, prev) == sw = prev

ModeNum(pot) == (pot + 36) \div 49

\* modes_update clearing only the selected bit before it sets it.
ModesAfter_ClearBit(m, sw, n) ==
    ToUint8(BitOr(m - Bit(m, n) * (2 ^ n), sw * (2 ^ n), 15))

ModesAfter(m, sw, n) ==
    ToUint8(BitOr(ToUint8(BitAnd(m, 2 ^ n, 15)), sw * (2 ^ n), 15))

ModeSet(m, b) == Bit(m, b) = 1

\* The pan-tilt override keyed on the armed bit.
StickOverride_Armed(m, s) == IF ModeSet(m, MODE_MOTORS_ARMED) THEN 128 ELSE s

StickOverride(m, s) == IF ModeSet(m, MODE_PANTILT_ENABLE) THEN 128 ELSE s

CurAngle(ang, rate) == ToInt16(Asr(ang, 16) + Asr(rate, 2))

CurYaw(yaw, rate) == ToInt16(yaw + rate * 2)

DestStick(s) == ToInt16(s * 32 - 128 * 32)

\* The yaw stick scaled like the pitch and roll sticks.
YawDelta_Shift5(s) == s * 32 - 128 * 32

YawDelta(s) == s * 4 - 128 * 4

SetYawAdvance(sy, s) == ToInt16(sy + YawDelta(s))

\* The throttle shifted by 6 instead of 7.
BaseThrottle_Shift6(t) == ToInt16(t * 64)

BaseThrottle(t) == ToInt16(t * 128)

AxisError(cur, dest) == ToInt16(-(cur + dest))

YawError(cur, sy) == ToInt16(cur - sy)

\* The easing with a bias of 0x400 instead of 0x300 outside the deadband.
Ease_Bias400(e) ==
    IF e < 1024 /\ e > -1024 THEN Asr(e, 2)
    ELSE IF e > 0 THEN ToInt16(e - 1024)
    ELSE ToInt16(e + 1024)

Ease(e) ==
    IF e < 1024 /\ e > -1024 THEN Asr(e, 2)
    ELSE IF e > 0 THEN ToInt16(e - 768)
    ELSE ToInt16(e + 768)

\* CLAMP without its upper test.
CLAMP_NoUpper(x, mi, ma) == IF x < mi THEN mi ELSE x

CLAMP(x, mi, ma) ==
    LET x1 == IF x < mi THEN mi ELSE x
    IN IF x1 > ma THEN ma ELSE x1

YawTerm(m, err, s) ==
    IF ModeSet(m, MODE_HEADINGHOLD_ENABLE) THEN CLAMP(err, -2048, 2048)
    ELSE ToInt16(128 * 32 - s * 32)

\* The setpoint is never reset to the current yaw.
SetYawKeep_NoReset(m, sy, cur) == sy

SetYawKeep(m, sy, cur) ==
    IF ModeSet(m, MODE_HEADINGHOLD_ENABLE) THEN sy ELSE cur

MotorMix(base, p, r, y) ==
    [i \in Motors |->
        CASE i = 0 -> base + p + r + y
          [] i = 1 -> base - p + r - y
          [] i = 2 -> base + p - r - y
          [] i = 3 -> base - p - r + y]

MotorOut(base, p, r, y) ==
    [i \in Motors |-> ToUint16(CLAMP(MotorMix(base, p, r, y)[i], 0, 32000))]

\* Lines 251-306 of control_update, from the stick copies, the attitude
\* snapshot, the throttle channel, the mode flags and the yaw setpoint.
Mixer(m, sy, co, cyr, cyf, cp, cr, cyw, thr) ==
    LET co1 == StickOverride(m, co)
        cyr1 == StickOverride(m, cyr)
        cyf1 == StickOverride(m, cyf)
        sy1 == SetYawAdvance(sy, co1)
        ep == AxisError(cp, DestStick(cyf1))
        er == AxisError(cr, DestStick(cyr1))
        dp == Ease(ep)
        dr == Ease(er)
        dy == YawTerm(m, YawError(cyw, sy1), co1)
    IN [set_yaw |-> SetYawKeep(m, sy1, cyw),
        err_pitch |-> ep, err_roll |-> er,
        dest_pitch |-> dp, dest_roll |-> dr,
        out |-> MotorOut(BaseThrottle(thr), dp, dr, dy)]

(***************************************************************************)
(* Initial state: the globals as the C runtime zeroes them, interrupts     *)
(* off, nothing printed yet.                                               *)
(***************************************************************************)
Zero4 == [i \in Motors |-> 0]

InitMain ==
    /\ con_sets = 0 /\ mix_sets = Zero4
    /\ modes = 0 /\ prev_sw = 0 /\ set_yaw = 0
    /\ sw_read = 0 /\ num = 0 /\ old_modes = 0 /\ old_prev_sw = 0
    /\ co_right = 0 /\ cy_right = 0 /\ cy_front = 0
    /\ cur_pitch = 0 /\ cur_roll = 0 /\ cur_yaw = 0
    /\ err_pitch = 0 /\ err_roll = 0 /\ dest_pitch = 0 /\ dest_roll = 0
    /\ mix = Zero4
    /\ rx_first = <<0, 0, 0, 0>> /\ rx_used = <<0, 0, 0, 0>> /\ yaw_in = 0
    /\ nkeys = 0 /\ last_ch = "" /\ nticks = 0
    /\ hs = <<>> /\ arg = -1 /\ line = <<>>
    /\ hh_base = 0 /\ hh_sum = 0 /\ hh_n = 0
    /\ nirq = 0

Init ==
    /\ InitMain
    /\ pc = "boot" /\ ie = FALSE /\ ahrs_on = FALSE /\ started = FALSE
    /\ motor = Zero4
    /\ actuator = Zero4 /\ act_by = [i \in Motors |-> "none"]
    /\ ver = 255 /\ cnt = 0 /\ len = U32(0)
    /\ gyro_oob = FALSE /\ gyro_polls = 0 /\ mag_len = -1 /\ acc_len = -1
    /\ acc_carry = FALSE
    /\ chk_no_signal = -1 /\ chk_throttle = -1 /\ halt_at = "none"
    /\ msg_running = FALSE /\ msg_error = FALSE /\ msg_signal = ""
    /\ nreports = 0 /\ report = <<>>
    /\ adc_values = [i \in 0 .. 2 |-> 0]
    /\ rx_co_throttle = 0 /\ rx_co_right = 0 /\ rx_cy_right = 0
    /\ rx_cy_front = 0 /\ rx_gyro_sw = 0 /\ rx_right_pot = 0
    /\ rx_no_signal = 0
    /\ ahrs_pitch = 0 /\ ahrs_pitch_rate = 0 /\ ahrs_roll = 0
    /\ ahrs_roll_rate = 0 /\ ahrs_yaw = 0 /\ ahrs_yaw_rate = 0

(***************************************************************************)
(* show_state and die.                                                     *)
(***************************************************************************)
\* Lines 23-26, the argument of serial_write_dec8: motor[i] is evaluated
\* before the call.
show_arg(i) == motor[i]

\* The argument of call i of show_state is still to be evaluated.
show_eval(i, a) == i < 4 /\ a = -1

\* Lines 23-27, one call per step: for i in 0..3 serial_write_dec8 adds the
\* value a it was called with to the console line, for i = 4
\* serial_write_eol() ends the line.
show_state(i, a) ==
    IF i < 4
    THEN /\ line' = Append(line, a)
         /\ UNCHANGED <<nreports, report>>
    ELSE /\ line' = <<>>
         /\ report' = line
         /\ nreports' = nreports + 1

\* die() without cli().
die_NoCli(w) ==
    /\ ie' = ie
    /\ msg_error' = TRUE
    /\ pc' = "halted"
    /\ halt_at' = w

\* die(): cli, "ERROR", while (1).  w names the check that called it.  Up
\* to the cli() interrupts are served as anywhere else in setup().
die(w) ==
    /\ ie' = FALSE
    /\ msg_error' = TRUE
    /\ pc' = "halted"
    /\ halt_at' = w

(***************************************************************************)
(* setup().                                                                *)
(***************************************************************************)
AdcValues(p) == [i \in 0 .. 2 |-> 2 * p[i + 1]]

\* Lines 74-88: the initialisations, handle_input registered, sei().
SetupInit ==
    /\ pc = "boot"
    /\ ie' = TRUE
    /\ pc' = "adc"
    /\ UNCHANGED <<runv, bootv, outv, actv, rxv, ahrsv, modev, ctlv, conv>>

\* Line 90: the first conversion of the analog channels.
SetupAdc ==
    /\ pc = "adc"
    /\ \E a \in AdcPolls : adc_values' = AdcValues(a)
    /\ pc' = "nosig"
    /\ UNCHANGED <<ie, runv, ver, cnt, len, gyro_oob, gyro_polls, mag_len,
                   acc_len, acc_carry, chk_no_signal, chk_throttle, halt_at,
                   outv, actv, rxv, ahrsv, modev, ctlv, conv>>

\* Line 92: rx_no_signal = 10.
SetupNoSignal ==
    /\ pc = "nosig"
    /\ rx_no_signal' = 10
    /\ pc' = "ident"
    /\ UNCHANGED <<ie, runv, bootv, outv, actv, rx_co_throttle, rx_co_right,
                   rx_cy_right, rx_cy_front, rx_gyro_sw, rx_right_pot, ahrsv,
                   modev, ctlv, conv>>

IdentBad(v) == v # 2

\* Lines 95-125: wait, banner, magnetometer identity byte.
SetupIdent ==
    /\ pc = "ident"
    /\ \E id \in MagIds :
        /\ ver' = id
        /\ IF IdentBad(id)
           THEN pc' = "die_ident" /\ cnt' = cnt
           ELSE pc' = "gyro" /\ cnt' = 0
    /\ UNCHANGED <<ie, msg_error, halt_at, runv, adc_values, len, gyro_oob, gyro_polls, mag_len,
                   acc_len, acc_carry, chk_no_signal, chk_throttle,
                   msg_running, msg_signal, line, nreports, report, actv, rxv,
                   ahrsv, modev, ctlv, conv>>

GyroInBand(adc) == \A i \in 0 .. 2 : adc[i] > 672 /\ adc[i] < 848

\* The gyro loop without its limit of 20 re-polls.
GyroRetry_Forever(c) == TRUE

GyroRetry(c) == c < 20

\* The check after the gyro loop, off by one.
GyroBad_OffByOne(c) == c < 20

GyroBad(c) == c < 21

\* Lines 130-139: one evaluation of the while condition, then either the
\* loop body (a re-poll of the three axes) or the check after the loop.
SetupGyro ==
    /\ pc = "gyro"
    /\ LET inband == GyroInBand(adc_values)
           c1 == IF inband THEN ToUint8(cnt + 1) ELSE cnt
       IN /\ cnt' = c1
          /\ gyro_oob' = (gyro_oob \/ ~inband)
          /\ IF inband /\ GyroRetry(cnt)
             THEN /\ \E a \in AdcPolls : adc_values' = AdcValues(a)
                  /\ gyro_polls' = gyro_polls + 1
                  /\ pc' = pc
             ELSE /\ adc_values' = adc_values
                  /\ gyro_polls' = gyro_polls
                  /\ pc' = IF GyroBad(c1) THEN "die_gyro" ELSE "mag"
    /\ UNCHANGED <<ie, msg_error, halt_at, runv, ver, len, mag_len, acc_len, acc_carry, chk_no_signal,
                   chk_throttle, msg_running, msg_signal, line, nreports,
                   report, actv, rxv, ahrsv, modev, ctlv, conv>>

MagAxis(raw, cal) == ToInt16(raw - cal)

MagLen(r) ==
    isqrt32(U32Add(U32Add(
        U32(MagAxis(r[1], cmps09_mag_calib[1]) * MagAxis(r[1], cmps09_mag_calib[1])),
        MagAxis(r[2], cmps09_mag_calib[2]) * MagAxis(r[2], cmps09_mag_calib[2])),
        MagAxis(r[3], cmps09_mag_calib[3]) * MagAxis(r[3], cmps09_mag_calib[3])))

MagBad(l) == l > 600 \/ l < 300

\* Lines 143-156: magnetic field magnitude.
SetupMag ==
    /\ pc = "mag"
    /\ \E r \in MagReadings :
        /\ len' = U32(MagLen(r))
        /\ mag_len' = MagLen(r)
        /\ IF MagBad(MagLen(r))
           THEN pc' = "die_mag" /\ cnt' = cnt
           ELSE pc' = "acc" /\ cnt' = 0
    /\ UNCHANGED <<ie, msg_error, halt_at, runv, ver, adc_values, gyro_oob, gyro_polls, acc_len,
                   acc_carry, chk_no_signal, chk_throttle, msg_running,
                   msg_signal, line, nreports, report, actv, rxv, ahrsv,
                   modev, ctlv, conv>>

AccHalf(raw) == ToInt16(Asr(ToInt16(raw) + 1, 1))

AccSquares(s) ==
    AccHalf(s[1]) * AccHalf(s[1]) + AccHalf(s[2]) * AccHalf(s[2])
    + AccHalf(s[3]) * AccHalf(s[3])

AccMore(c) == c < 16

\* Lines 160-169: one accelerometer sample added to the running sum, which
\* starts from the magnetic magnitude line 151 left in len.
SetupAccSample ==
    /\ pc = "acc"
    /\ AccMore(cnt)
    /\ \E s \in AccSamples :
        /\ len' = U32Add(len, AccSquares(s))
        /\ acc_carry' = (acc_carry \/ U32Carry(len, AccSquares(s)))
    /\ cnt' = ToUint8(cnt + 1)
    /\ UNCHANGED <<pc, ie, runv, ver, adc_values, gyro_oob, gyro_polls,
                   mag_len, acc_len, chk_no_signal, chk_throttle, halt_at,
                   outv, actv, rxv, ahrsv, modev, ctlv, conv>>

AccLen(l) == Asr(isqrt32(l) + 1, 1)

AccBad(l) == l > 16496 \/ l < 16128

\* Lines 170-176: accelerometer rest magnitude.
SetupAccCheck ==
    /\ pc = "acc"
    /\ ~AccMore(cnt)
    /\ len' = U32(AccLen(len))
    /\ acc_len' = AccLen(len)
    /\ pc' = IF AccBad(AccLen(len)) THEN "die_acc" ELSE "rx_msg"
    /\ UNCHANGED <<ie, msg_error, halt_at, runv, ver, cnt, adc_values, gyro_oob, gyro_polls, mag_len,
                   acc_carry, chk_no_signal, chk_throttle, msg_running,
                   msg_signal, line, nreports, report, actv, rxv, ahrsv,
                   modev, ctlv, conv>>

\* Lines 178-180: the receiver signal as printed.
SetupRxPrint ==
    /\ pc = "rx_msg"
    /\ msg_signal' = IF rx_no_signal # 0 THEN "NOPE" ELSE "yep"
    /\ pc' = "rx_sig"
    /\ UNCHANGED <<ie, runv, bootv, msg_running, msg_error, line, nreports,
                   report, actv, rxv, ahrsv, modev, ctlv, conv>>

\* Line 181, left operand: is there a receiver signal.
SetupRxSignal ==
    /\ pc = "rx_sig"
    /\ chk_no_signal' = rx_no_signal
    /\ pc' = IF rx_no_signal = 0 THEN "rx_thr" ELSE "start"
    /\ UNCHANGED <<ie, runv, ver, cnt, adc_values, len, gyro_oob, gyro_polls,
                   mag_len, acc_len, acc_carry, chk_throttle, halt_at, outv,
                   actv, rxv, ahrsv, modev, ctlv, conv>>

\* The throttle limit of the receiver check at 250 instead of 5.
ThrottleBad_Above250(t) == t > 250

ThrottleBad(t) == t > 5

\* Lines 181-184, right operand: the throttle must be at the bottom, or
\* the message is written and die() called.
SetupRxThrottle ==
    /\ pc = "rx_thr"
    /\ chk_throttle' = rx_co_throttle
    /\ pc' = IF ThrottleBad(rx_co_throttle) THEN "die_rx" ELSE "start"
    /\ UNCHANGED <<ie, msg_error, halt_at, runv, ver, cnt, adc_values, len, gyro_oob, gyro_polls,
                   mag_len, acc_len, acc_carry, chk_no_signal, msg_running,
                   msg_signal, line, nreports, report, actv, rxv, ahrsv,
                   modev, ctlv, conv>>

DiePcs == {"die_ident", "die_gyro", "die_mag", "die_acc", "die_rx"}

DieAt(p) ==
    CASE p = "die_ident" -> "ident" [] p = "die_gyro" -> "gyro"
      [] p = "die_mag" -> "mag" [] p = "die_acc" -> "acc"
      [] p = "die_rx" -> "rx"

\* Lines 125, 139, 156, 176, 184: die() called after a failed check, its
\* cli() executed.
SetupDie ==
    /\ pc \in DiePcs
    /\ die(DieAt(pc))
    /\ UNCHANGED <<runv, ver, cnt, adc_values, len, gyro_oob, gyro_polls,
                   mag_len, acc_len, acc_carry, chk_no_signal, chk_throttle,
                   msg_running, msg_signal, line, nreports, report, actv, rxv,
                   ahrsv, modev, ctlv, conv>>

\* Lines 187-190: ahrs_init().
SetupAhrsInit ==
    /\ pc = "start"
    /\ ahrs_on' = TRUE
    /\ pc' = "act_start"
    /\ UNCHANGED <<ie, started, bootv, outv, actv, rxv, ahrsv, modev, ctlv,
                   conv>>

\* Line 191: actuators_start().
SetupActuatorsStart ==
    /\ pc = "act_start"
    /\ started' = TRUE
    /\ pc' = "run_msg"
    /\ UNCHANGED <<ie, ahrs_on, bootv, outv, actv, rxv, ahrsv, modev, ctlv,
                   conv>>

\* Line 193: the running message.
SetupRunning ==
    /\ pc = "run_msg"
    /\ msg_running' = TRUE
    /\ pc' = "show0"
    /\ UNCHANGED <<ie, runv, bootv, msg_error, msg_signal, line, nreports,
                   report, actv, rxv, ahrsv, modev, ctlv, conv>>

ShowPcs == {"show0", "show1", "show2", "show3", "show4"}

ShowIndex(p) ==
    CASE p = "show0" -> 0 [] p = "show1" -> 1 [] p = "show2" -> 2
      [] p = "show3" -> 3 [] p = "show4" -> 4

ShowNext(p) ==
    CASE p = "show0" -> "show1" [] p = "show1" -> "show2"
      [] p = "show2" -> "show3" [] p = "show3" -> "show4"
      [] p = "show4" -> "loop_delay"

\* Line 195: show_state() in the main context: the evaluation of an
\* argument, or one call with its argument evaluated, per step.
SetupShow ==
    /\ pc \in ShowPcs
    /\ IF show_eval(ShowIndex(pc), arg)
       THEN /\ arg' = show_arg(ShowIndex(pc))
            /\ UNCHANGED <<pc, line, nreports, report>>
       ELSE /\ show_state(ShowIndex(pc), arg)
            /\ arg' = -1
            /\ pc' = ShowNext(pc)
    /\ UNCHANGED <<ie, runv, bootv, msg_running, msg_error, msg_signal, actv,
                   rxv, ahrsv, modev, ctlv, motor, nkeys, last_ch, hs>>

(***************************************************************************)
(* The receiver and estimator interrupts.  Each runs only while            *)
(* interrupts are enabled and runs to completion.                          *)
(***************************************************************************)
\* Receiver Decoder: one decoded channel is stored and the signal-loss
\* counter is cleared.
RxWrite(ch, v) ==
    /\ ie
    /\ rx_co_throttle' = IF ch = "co_throttle" THEN v ELSE rx_co_throttle
    /\ rx_co_right' = IF ch = "co_right" THEN v ELSE rx_co_right
    /\ rx_cy_right' = IF ch = "cy_right" THEN v ELSE rx_cy_right
    /\ rx_cy_front' = IF ch = "cy_front" THEN v ELSE rx_cy_front
    /\ rx_gyro_sw' = IF ch = "gyro_sw" THEN v ELSE rx_gyro_sw
    /\ rx_right_pot' = IF ch = "right_pot" THEN v ELSE rx_right_pot
    /\ rx_no_signal' = 0
    /\ UNCHANGED <<pc, ie, runv, bootv, outv, actv, ahrsv, modev, ctlv,
                   conv>>

\* Receiver Decoder: the signal is lost, the counter becomes non-zero.
RxLoss ==
    /\ ie
    /\ rx_no_signal = 0
    /\ rx_no_signal' = 10
    /\ UNCHANGED <<pc, ie, runv, bootv, outv, actv, rx_co_throttle,
                   rx_co_right, rx_cy_right, rx_cy_front, rx_gyro_sw,
                   rx_right_pot, ahrsv, modev, ctlv, conv>>

\* Attitude Estimator: one update cycle rewrites the six attitude fields.
AhrsUpdate(f) ==
    /\ ie
    /\ ahrs_on
    /\ ahrs_pitch' = f.pitch /\ ahrs_pitch_rate' = f.pitch_rate
    /\ ahrs_roll' = f.roll /\ ahrs_roll_rate' = f.roll_rate
    /\ ahrs_yaw' = f.yaw /\ ahrs_yaw_rate' = f.yaw_rate
    /\ <<f.pitch, f.pitch_rate, f.roll, f.roll_rate, f.yaw, f.yaw_rate>>
          # ahrsv
    /\ UNCHANGED <<pc, ie, runv, bootv, outv, actv, rxv, modev, ctlv,
                   conv>>

(***************************************************************************)
(* handle_input, the console callback.                                     *)
(***************************************************************************)
KeyDown == {"a", "s", "d", "f"}

KeyUp == {"q", "w", "e", "r"}

KeyIndex(ch) ==
    CASE ch \in {"a", "q"} -> 0
      [] ch \in {"s", "w"} -> 1
      [] ch \in {"d", "e"} -> 2
      [] ch \in {"f", "r"} -> 3

MOTOR_DOWN(m, n) == [m EXCEPT ![n] = IF m[n] > 0 THEN ToUint8(m[n] - 1) ELSE m[n]]

MOTOR_UP(m, n) == [m EXCEPT ![n] = IF m[n] < 255 THEN ToUint8(m[n] + 1) ELSE m[n]]

\* The test value shifted by 7 instead of 8.
TestCommand_Shift7(v) == ToUint16(v * 128)

TestCommand(v) == ToUint16(v * 256)

\* Lines 30-62, entered from the serial receive interrupt with interrupts
\* disabled: the command and its actuator_set, then sei() before the
\* report; any other character returns at once.
handle_input(ch) ==
    /\ ie
    /\ nkeys < MaxKeys
    /\ nkeys' = nkeys + 1
    /\ last_ch' = ch
    /\ IF ch \in KeyDown \cup KeyUp
       THEN /\ motor' = IF ch \in KeyDown THEN MOTOR_DOWN(motor, KeyIndex(ch))
                        ELSE MOTOR_UP(motor, KeyIndex(ch))
            /\ actuator' = [actuator EXCEPT
                              ![KeyIndex(ch)] = TestCommand(motor'[KeyIndex(ch)])]
            /\ act_by' = [act_by EXCEPT ![KeyIndex(ch)] = "console"]
            /\ con_sets' = con_sets + 1
            /\ mix_sets' = mix_sets
            /\ hs' = Append(hs, <<0, -1>>)
       ELSE UNCHANGED <<motor, actv, hs>>
    /\ ie' = TRUE
    /\ UNCHANGED <<pc, arg, runv, bootv, outv, rxv, ahrsv, modev, ctlv>>

\* Line 63 in the innermost handle_input call that has not returned, with
\* interrupts enabled: the evaluation of an argument, or one call of
\* show_state() with its argument evaluated, per step; after the end of
\* line the handler returns to what it interrupted.
handle_input_show ==
    /\ hs # <<>>
    /\ LET i == hs[Len(hs)][1]
           a == hs[Len(hs)][2]
       IN IF show_eval(i, a)
          THEN /\ hs' = [hs EXCEPT ![Len(hs)] = <<i, show_arg(i)>>]
               /\ UNCHANGED <<line, nreports, report>>
          ELSE /\ show_state(i, a)
               /\ hs' = IF i = 4 THEN SubSeq(hs, 1, Len(hs) - 1)
                        ELSE [hs EXCEPT ![Len(hs)] = <<i + 1, -1>>]
    /\ UNCHANGED <<pc, ie, arg, runv, bootv, msg_running, msg_error, msg_signal,
                   actv, rxv, ahrsv, modev, ctlv, motor, nkeys, last_ch>>

(***************************************************************************)
(* loop(), line by line: modes_update then control_update.                 *)
(***************************************************************************)
\* Line 314: my_delay(20).
LoopDelay ==
    /\ pc = "loop_delay"
    /\ nticks < MaxTicks
    /\ pc' = "mu_cmp"
    /\ UNCHANGED <<ie, runv, bootv, outv, actv, rxv, ahrsv, modev, ctlv,
                   conv>>

\* Line 217: compare the switch with the recorded value.
ModesCompare ==
    /\ pc = "mu_cmp"
    /\ sw_read' = rx_gyro_sw
    /\ old_modes' = modes
    /\ old_prev_sw' = prev_sw
    /\ pc' = IF SwitchUnchanged(rx_gyro_sw, prev_sw) THEN "cu_co" ELSE "mu_rec"
    /\ UNCHANGED <<ie, runv, bootv, outv, actv, rxv, ahrsv, modes,
                   prev_sw, num, ctlv, conv>>

\* Line 219: record the switch.  rx_gyro_sw is declared outside this file:
\* the build either reads it again or reuses the value line 217 read.
ModesRecord ==
    /\ pc = "mu_rec"
    /\ prev_sw' \in {rx_gyro_sw, sw_read}
    /\ pc' = "mu_num"
    /\ UNCHANGED <<ie, runv, bootv, outv, actv, rxv, ahrsv, modes,
                   sw_read, num, old_modes, old_prev_sw, ctlv, conv>>

\* Lines 221-223: select the mode bit and update the flags.
ModesApply ==
    /\ pc = "mu_num"
    /\ num' = ModeNum(rx_right_pot)
    /\ modes' = ModesAfter(modes, prev_sw, ModeNum(rx_right_pot))
    /\ pc' = "cu_co"
    /\ UNCHANGED <<ie, runv, bootv, outv, actv, rxv, ahrsv, prev_sw,
                   sw_read, old_modes, old_prev_sw, ctlv, conv>>

\* The throttle and the three stick channels as they stand.
RxNow == <<rx_co_throttle, rx_co_right, rx_cy_right, rx_cy_front>>

\* Lines 230-231: the three stick copies, one read each.
CtlReadSticks ==
    /\ pc \in {"cu_co", "cu_cyr", "cu_cyf"}
    /\ co_right' = IF pc = "cu_co" THEN rx_co_right ELSE co_right
    /\ cy_right' = IF pc = "cu_cyr" THEN rx_cy_right ELSE cy_right
    /\ cy_front' = IF pc = "cu_cyf" THEN rx_cy_front ELSE cy_front
    /\ rx_first' = IF pc = "cu_co" THEN RxNow ELSE rx_first
    /\ pc' = CASE pc = "cu_co" -> "cu_cyr"
               [] pc = "cu_cyr" -> "cu_cyf"
               [] pc = "cu_cyf" -> "cu_cli"
    /\ UNCHANGED <<ie, runv, bootv, outv, actv, rxv, ahrsv, modev,
                   set_yaw, cur_pitch, cur_roll, cur_yaw, err_pitch,
                   err_roll, dest_pitch, dest_roll, mix, rx_used, yaw_in,
                   nticks, hh_base, hh_sum, hh_n, conv>>

\* control_update without its cli().
CtlCli_NoCli ==
    /\ pc = "cu_cli"
    /\ ie' = ie
    /\ pc' = "cu_pitch"
    /\ UNCHANGED <<runv, bootv, outv, actv, rxv, ahrsv, modev, ctlv, conv>>

\* Line 245: cli().
CtlCli ==
    /\ pc = "cu_cli"
    /\ ie' = FALSE
    /\ pc' = "cu_pitch"
    /\ UNCHANGED <<runv, bootv, outv, actv, rxv, ahrsv, modev, ctlv, conv>>

\* Lines 246-248: the attitude snapshot, one line per step.
CtlSnapshot ==
    /\ pc \in {"cu_pitch", "cu_roll", "cu_yaw"}
    /\ cur_pitch' = IF pc = "cu_pitch"
                    THEN CurAngle(ahrs_pitch, ahrs_pitch_rate) ELSE cur_pitch
    /\ cur_roll' = IF pc = "cu_roll"
                   THEN CurAngle(ahrs_roll, ahrs_roll_rate) ELSE cur_roll
    /\ cur_yaw' = IF pc = "cu_yaw"
                  THEN CurYaw(ahrs_yaw, ahrs_yaw_rate) ELSE cur_yaw
    /\ pc' = CASE pc = "cu_pitch" -> "cu_roll"
               [] pc = "cu_roll" -> "cu_yaw"
               [] pc = "cu_yaw" -> "cu_sei"
    /\ UNCHANGED <<ie, runv, bootv, outv, actv, rxv, ahrsv, modev,
                   set_yaw, co_right, cy_right, cy_front, err_pitch,
                   err_roll, dest_pitch, dest_roll, mix, rx_first, rx_used,
                   yaw_in, nticks, hh_base, hh_sum, hh_n, conv>>

\* Line 249: sei().
CtlSei ==
    /\ pc = "cu_sei"
    /\ ie' = TRUE
    /\ pc' = "cu_mix"
    /\ UNCHANGED <<runv, bootv, outv, actv, rxv, ahrsv, modev, ctlv, conv>>

\* Lines 251-306 on the values given: the stick overrides, the yaw
\* setpoint and the four clamped commands; hh_base, hh_sum and hh_n keep the
\* setpoint before, the sum of the stick deltas over, and the length of the
\* current run of heading-hold ticks.
ControlEffects(m, co, cyr, cyf, cp, cr, cyw, thr) ==
    LET r == Mixer(m, set_yaw, co, cyr, cyf, cp, cr, cyw, thr)
    IN /\ co_right' = StickOverride(m, co)
       /\ cy_right' = StickOverride(m, cyr)
       /\ cy_front' = StickOverride(m, cyf)
       /\ set_yaw' = r.set_yaw
       /\ yaw_in' = set_yaw
       /\ rx_used' = <<thr, co, cyr, cyf>>
       /\ err_pitch' = r.err_pitch /\ err_roll' = r.err_roll
       /\ dest_pitch' = r.dest_pitch /\ dest_roll' = r.dest_roll
       /\ mix' = r.out
       /\ IF ModeSet(m, MODE_HEADINGHOLD_ENABLE)
          THEN /\ hh_n' = hh_n + 1
               /\ hh_sum' = hh_sum + (co * 4 - 512)
               /\ hh_base' = hh_base
          ELSE /\ hh_n' = 0
               /\ hh_sum' = 0
               /\ hh_base' = r.set_yaw

\* Lines 251-306, reading rx_co_throttle at line 262.
CtlMix ==
    /\ pc = "cu_mix"
    /\ ControlEffects(modes, co_right, cy_right, cy_front, cur_pitch,
                      cur_roll, cur_yaw, rx_co_throttle)
    /\ pc' = "cu_set0"
    /\ UNCHANGED <<ie, runv, bootv, outv, actv, rxv, ahrsv, modev,
                   cur_pitch, cur_roll, cur_yaw, rx_first, nticks, conv>>

\* The last actuator_set call repeats motor 2 instead of writing motor 3.
SetIndex_Repeat(p) ==
    CASE p = "cu_set0" -> 0 [] p = "cu_set1" -> 1
      [] p = "cu_set2" -> 2 [] p = "cu_set3" -> 2

SetIndex(p) ==
    CASE p = "cu_set0" -> 0 [] p = "cu_set1" -> 1
      [] p = "cu_set2" -> 2 [] p = "cu_set3" -> 3

SetNext(p) ==
    CASE p = "cu_set0" -> "cu_set1" [] p = "cu_set1" -> "cu_set2"
      [] p = "cu_set2" -> "cu_set3" [] p = "cu_set3" -> "loop_delay"

\* Lines 307-310: the four actuator_set calls, one per step.
CtlSet ==
    /\ pc \in {"cu_set0", "cu_set1", "cu_set2", "cu_set3"}
    /\ actuator' = [actuator EXCEPT ![SetIndex(pc)] = mix[SetIndex(pc)]]
    /\ act_by' = [act_by EXCEPT ![SetIndex(pc)] = "mixer"]
    /\ mix_sets' = [mix_sets EXCEPT ![SetIndex(pc)] = mix_sets[SetIndex(pc)] + 1]
    /\ nticks' = IF pc = "cu_set3" THEN nticks + 1 ELSE nticks
    /\ pc' = SetNext(pc)
    /\ UNCHANGED <<ie, runv, bootv, outv, con_sets, rxv, ahrsv, modev,
                   set_yaw, co_right, cy_right, cy_front, cur_pitch,
                   cur_roll, cur_yaw, err_pitch, err_roll, dest_pitch,
                   dest_roll, mix, rx_first, rx_used, yaw_in, hh_base, hh_sum,
                   hh_n, conv>>

(***************************************************************************)
(* modes_update, control_update, loop and setup as the steps they are made *)
(* of.                                                                     *)
(***************************************************************************)
\* Lines 214-224.
modes_update == ModesCompare \/ ModesRecord \/ ModesApply

\* Lines 226-311.
control_update ==
    CtlReadSticks \/ CtlCli \/ CtlSnapshot \/ CtlSei \/ CtlMix \/ CtlSet

\* Lines 313-326.
loop == LoopDelay \/ modes_update \/ control_update

(***************************************************************************)
(* Spec: boot, halt and the main loop under interrupts.                    *)
(***************************************************************************)
\* An interrupt is delivered, one of at most n.
IrqWithin(n, A) ==
    /\ nirq < n
    /\ A
    /\ nirq' = nirq + 1

\* An interrupt is delivered (at most MaxIrq of them are explored).
Irq(A) == IrqWithin(MaxIrq, A)

\* A step of the main context, which runs only while no interrupt handler
\* is active.
Main(A) ==
    /\ hs = <<>>
    /\ A
    /\ UNCHANGED nirq

\* A step of an interrupt handler that interrupts are served inside of.
Handler(A) == A /\ UNCHANGED nirq

Next ==
    \/ Main(SetupInit)
    \/ Main(SetupAdc)
    \/ Main(SetupNoSignal)
    \/ Main(SetupIdent)
    \/ Main(SetupGyro)
    \/ Main(SetupMag)
    \/ Main(SetupAccSample)
    \/ Main(SetupAccCheck)
    \/ Main(SetupRxPrint)
    \/ Main(SetupRxSignal)
    \/ Main(SetupRxThrottle)
    \/ Main(SetupDie)
    \/ Main(SetupAhrsInit)
    \/ Main(SetupActuatorsStart)
    \/ Main(SetupRunning)
    \/ Main(SetupShow)
    \/ Main(LoopDelay)
    \/ Main(ModesCompare)
    \/ Main(ModesRecord)
    \/ Main(ModesApply)
    \/ Main(CtlReadSticks)
    \/ Main(CtlCli)
    \/ Main(CtlSnapshot)
    \/ Main(CtlSei)
    \/ Main(CtlMix)
    \/ Main(CtlSet)
    \/ Irq(\E ch \in RxChans : \E v \in RxSmall[ch] : RxWrite(ch, v))
    \/ Irq(RxLoss)
    \/ Irq(\E f \in AhrsSmall : AhrsUpdate(f))
    \/ Irq(\E ch \in BootChars : handle_input(ch))
    \/ Handler(handle_input_show)

Spec == Init /\ [][Next]_vars

\* A step of setup() in the main context.
SetupStep ==
    \/ Main(SetupInit)
    \/ Main(SetupAdc)
    \/ Main(SetupNoSignal)
    \/ Main(SetupIdent)
    \/ Main(SetupGyro)
    \/ Main(SetupMag)
    \/ Main(SetupAccSample)
    \/ Main(SetupAccCheck)
    \/ Main(SetupRxPrint)
    \/ Main(SetupRxSignal)
    \/ Main(SetupRxThrottle)
    \/ Main(SetupDie)
    \/ Main(SetupAhrsInit)
    \/ Main(SetupActuatorsStart)
    \/ Main(SetupRunning)
    \/ Main(SetupShow)

\* setup() under interrupts, up to its return.
\* The interrupts of the gate: the receiver moves the throttle or loses the
\* signal, the estimator updates, keys are struck.
GateChans == {"co_throttle"}

NextGate ==
    \/ SetupStep
    \/ Irq(\E ch \in GateChans : \E v \in RxSmall[ch] : RxWrite(ch, v))
    \/ Irq(RxLoss)
    \/ Irq(\E f \in AhrsSmall : AhrsUpdate(f))
    \/ Irq(\E ch \in BootChars : handle_input(ch))
    \/ Handler(handle_input_show)

\* SpecGate: the main context keeps executing setup(): every sensor read and
\* delay it calls returns, and every interrupt handler writes its report
\* and returns.
SpecGate ==
    /\ Init
    /\ [][NextGate]_vars
    /\ WF_vars(SetupStep)
    /\ WF_vars(Handler(handle_input_show))

(***************************************************************************)
(* The state in which setup() returns when every check has passed and no   *)
(* key has been struck: the receiver has delivered a frame with the        *)
(* throttle at the bottom, the first state report has been written.        *)
(***************************************************************************)
InitRun ==
    /\ InitMain
    /\ pc = "loop_delay" /\ ie = TRUE /\ ahrs_on = TRUE /\ started = TRUE
    /\ ver = 2 /\ cnt = 16 /\ len = U32(16346)
    /\ gyro_oob = FALSE /\ gyro_polls = 20 /\ mag_len = 300 /\ acc_len = 16346
    /\ acc_carry = FALSE
    /\ chk_no_signal = 0 /\ chk_throttle = 0 /\ halt_at = "none"
    /\ msg_running = TRUE /\ msg_error = FALSE /\ msg_signal = "yep"
    /\ nreports = 1
    /\ adc_values = [i \in 0 .. 2 |-> 674]
    /\ rx_no_signal = 0

WideAhrs ==
    {AhrsFrame(p, 0, r[1], r[2], y[1], y[2]) :
        p \in {-65536 * 32767, -65536 * 1000, 0, 2147483647},
        r \in {<<0, 0>>, <<2147483647, -32768>>},
        y \in {<<0, 0>>, <<-32700, 1>>}}

(***************************************************************************)
(* SpecLoop: the loop over wide inputs, the receiver moving the yaw stick, *)
(* the switch and the selector at any point.                               *)
(***************************************************************************)
InitLoop ==
    /\ InitRun
    /\ motor = Zero4 /\ report = <<0, 0, 0, 0>>
    /\ actuator = Zero4 /\ act_by = [i \in Motors |-> "none"]
    /\ rx_co_throttle \in {0, 255}
    /\ rx_co_right \in {0, 255}
    /\ rx_cy_right \in {128, 255}
    /\ rx_cy_front \in {0, 128}
    /\ rx_gyro_sw = 0
    /\ rx_right_pot = 49
    /\ \E f \in WideAhrs :
        /\ ahrs_pitch = f.pitch /\ ahrs_pitch_rate = f.pitch_rate
        /\ ahrs_roll = f.roll /\ ahrs_roll_rate = f.roll_rate
        /\ ahrs_yaw = f.yaw /\ ahrs_yaw_rate = f.yaw_rate

LoopChans == {"co_right", "gyro_sw", "right_pot"}

NextLoop ==
    \/ Main(LoopDelay)
    \/ Main(modes_update)
    \/ Main(control_update)
    \/ Irq(\E ch \in LoopChans : \E v \in RxWide[ch] : RxWrite(ch, v))

SpecLoop == InitLoop /\ [][NextLoop]_vars

(***************************************************************************)
(* SpecConsole: the console handler and the loop.  The motor test values   *)
(* start where earlier key strokes have left them; the last tick ran with  *)
(* the sticks neutral, the throttle at the bottom and the attitude at      *)
(* rest, which makes all four commands 0.                                  *)
(***************************************************************************)
TestVals == {<<0, 0, 0, 0>>, <<255, 0, 125, 0>>}

InitConsole ==
    /\ InitRun
    /\ \E t \in TestVals : motor = [i \in Motors |-> t[i + 1]]
    /\ report = <<motor[0], motor[1], motor[2], motor[3]>>
    /\ actuator = Zero4 /\ act_by = [i \in Motors |-> "mixer"]
    /\ rx_co_throttle = 255
    /\ rx_co_right = 128 /\ rx_cy_right = 128 /\ rx_cy_front = 128
    /\ rx_gyro_sw = 0 /\ rx_right_pot = 0
    /\ ahrs_pitch = 0 /\ ahrs_pitch_rate = 0 /\ ahrs_roll = 0
    /\ ahrs_roll_rate = 0 /\ ahrs_yaw = 0 /\ ahrs_yaw_rate = 0

NextConsole ==
    \/ Main(LoopDelay)
    \/ Main(modes_update)
    \/ Main(control_update)
    \/ Irq(\E ch \in Chars : handle_input(ch))
    \/ Handler(handle_input_show)

SpecConsole == InitConsole /\ [][NextConsole]_vars

(***************************************************************************)
(* SpecNeutral: the loop with the sticks at their midpoint and the         *)
(* attitude at rest, over every throttle value, the receiver moving the    *)
(* throttle and the switch at any point.                                   *)
(***************************************************************************)
Throttles == 0 .. 255

ThrottleMoves == {0, 128, 250, 255}

InitNeutral ==
    /\ InitRun
    /\ motor = Zero4 /\ report = <<0, 0, 0, 0>>
    /\ actuator = Zero4 /\ act_by = [i \in Motors |-> "none"]
    /\ rx_co_throttle \in Throttles
    /\ rx_co_right = 128 /\ rx_cy_right = 128 /\ rx_cy_front = 128
    /\ rx_gyro_sw = 0
    /\ rx_right_pot = 49
    /\ ahrs_pitch = 0 /\ ahrs_pitch_rate = 0 /\ ahrs_roll = 0
    /\ ahrs_roll_rate = 0 /\ ahrs_yaw = 0 /\ ahrs_yaw_rate = 0

NextNeutral ==
    \/ Main(LoopDelay)
    \/ Main(modes_update)
    \/ Main(control_update)
    \/ Irq(\E v \in ThrottleMoves : RxWrite("co_throttle", v))
    \/ Irq(\E v \in RxWide.gyro_sw : RxWrite("gyro_sw", v))

SpecNeutral == InitNeutral /\ [][NextNeutral]_vars

(***************************************************************************)
(* SpecEase: the loop with the sticks at their midpoint, over pitch and    *)
(* roll angles that make the pitch and roll errors together take every     *)
(* 16-bit value, the estimator delivering a frame on the deadband boundary *)
(* at any point.                                                           *)
(***************************************************************************)
Angles == 0 .. 32767

EaseFrame == AhrsFrame(-65536 * 1024, 0, 65536 * 1024, 0, 0, 0)

InitEase ==
    /\ InitRun
    /\ motor = Zero4 /\ report = <<0, 0, 0, 0>>
    /\ actuator = Zero4 /\ act_by = [i \in Motors |-> "none"]
    /\ rx_co_throttle = 128
    /\ rx_co_right = 128 /\ rx_cy_right = 128 /\ rx_cy_front = 128
    /\ rx_gyro_sw = 0 /\ rx_right_pot = 0
    /\ \E k \in Angles :
        /\ ahrs_pitch = 65536 * k
        /\ ahrs_roll = 65536 * (-k - 1)
    /\ ahrs_pitch_rate = 0 /\ ahrs_roll_rate = 0
    /\ ahrs_yaw = 0 /\ ahrs_yaw_rate = 0

NextEase ==
    \/ Main(LoopDelay)
    \/ Main(modes_update)
    \/ Main(control_update)
    \/ Irq(AhrsUpdate(EaseFrame))

SpecEase == InitEase /\ [][NextEase]_vars

(***************************************************************************)
(* SpecModes: the loop with the receiver moving the switch and the         *)
(* selector at any point.                                                  *)
(***************************************************************************)
ModeChans == {"gyro_sw", "right_pot"}

InitModes ==
    /\ InitRun
    /\ motor = Zero4 /\ report = <<0, 0, 0, 0>>
    /\ actuator = Zero4 /\ act_by = [i \in Motors |-> "none"]
    /\ rx_co_throttle = 0
    /\ rx_co_right = 128 /\ rx_cy_right = 128 /\ rx_cy_front = 128
    /\ rx_gyro_sw \in RxWide.gyro_sw
    /\ rx_right_pot \in RxWide.right_pot
    /\ ahrs_pitch = 0 /\ ahrs_pitch_rate = 0 /\ ahrs_roll = 0
    /\ ahrs_roll_rate = 0 /\ ahrs_yaw = 0 /\ ahrs_yaw_rate = 0

NextModes ==
    \/ Main(LoopDelay)
    \/ Main(modes_update)
    \/ Main(control_update)
    \/ IrqWithin(MaxModeIrq,
                 \E ch \in ModeChans : \E v \in RxWide[ch] : RxWrite(ch, v))

SpecModes == InitModes /\ [][NextModes]_vars

(***************************************************************************)
(* Properties.                                                             *)
(***************************************************************************)
HeadingHold == ModeSet(modes, MODE_HEADINGHOLD_ENABLE)

RunPcs == {"loop_delay", "mu_cmp", "mu_rec", "mu_num", "cu_co", "cu_cyr",
           "cu_cyf", "cu_cli", "cu_pitch", "cu_roll", "cu_yaw", "cu_sei",
           "cu_mix", "cu_set0", "cu_set1", "cu_set2", "cu_set3"}

SnapshotPcs == {"cu_pitch", "cu_roll", "cu_yaw", "cu_sei"}

SetPcs == {"cu_set0", "cu_set1", "cu_set2", "cu_set3"}

\* C1: whatever the throttle, the sticks, the attitude and the mode flags,
\* and wherever the receiver interrupt falls, each of the four values
\* control_update hands to actuator_set is within 0..32000.
C1_MixerCommandsClamped ==
    /\ \A i \in Motors : mix[i] >= 0 /\ mix[i] <= 32000
    /\ \A i \in Motors :
          act_by[i] = "mixer" => actuator[i] >= 0 /\ actuator[i] <= 32000
    /\ (pc = "loop_delay" /\ nticks > 0) => actuator = mix

\* A finished tick with full throttle in which one command is held at the
\* upper bound, one at the lower bound and one lies strictly between.
C1_Witness ==
    /\ pc = "loop_delay" /\ nticks > 0
    /\ rx_used[1] = 255
    /\ \E i, j, k \in Motors :
        /\ actuator[i] = 32000
        /\ actuator[j] = 0
        /\ actuator[k] > 0 /\ actuator[k] < 32000

\* C2 as stated: after any sequence of ticks and console commands every
\* value last handed to actuator_set is within 0..32000.
C2_AllCommandsClamped ==
    \A i \in Motors : actuator[i] >= 0 /\ actuator[i] <= 32000

\* C2 as amended: a command last written by control_update is within
\* 0..32000; a command last written by a console command is the motor's
\* test value shifted left by 8, within 0..65280.
C2_CommandsByWriter ==
    \A i \in Motors :
        /\ act_by[i] = "mixer" => actuator[i] >= 0 /\ actuator[i] <= 32000
        /\ act_by[i] = "console" =>
              /\ actuator[i] = motor[i] * 256
              /\ actuator[i] >= 0 /\ actuator[i] <= 65280
        /\ act_by[i] \in {"mixer", "console"}

\* Inside a tick at full throttle, after its write of motor 1: a key has
\* put a larger command on motor 0 than the upper bound the tick has just
\* written to motor 1.
C2_Witness ==
    /\ pc = "cu_set2" /\ hs = <<>>
    /\ act_by[0] = "console" /\ actuator[0] > 32000
    /\ act_by[1] = "mixer" /\ actuator[1] = 32000
    /\ mix_sets[0] = mix_sets[1]

\* C3 as stated: the run state (ahrs_init and actuators_start executed, the
\* running message printed, the loop ticking) is reached only if the
\* identity byte was 0x02, every gyro reading of the 20 re-polls was in
\* band, the magnetic magnitude was within 300..600, the accelerometer
\* magnitude, the square root of the sum of the squares of the 16 samples,
\* halved, was within 0x3f00..0x4070 and the receiver check passed; after a
\* failed check the actuators are never started and the running message is
\* never printed.
C3_RunOnlyAfterAllChecks ==
    /\ (ahrs_on \/ started \/ msg_running \/ pc \in RunPcs) =>
          /\ ver = 2
          /\ ~gyro_oob /\ gyro_polls = 20
          /\ mag_len >= 300 /\ mag_len <= 600
          /\ acc_len >= 16128 /\ acc_len <= 16496 /\ ~acc_carry
          /\ \/ chk_no_signal > 0
             \/ chk_no_signal = 0 /\ chk_throttle >= 0 /\ chk_throttle <= 5
          /\ halt_at = "none"
    /\ pc \in DiePcs => ~ahrs_on /\ ~started /\ ~msg_running
    /\ halt_at # "none" =>
          ~ahrs_on /\ ~started /\ ~msg_running /\ pc = "halted"

\* C4: once die() has been entered and has disabled the interrupts the
\* system stays halted with interrupts disabled: no interrupt is delivered,
\* no handler runs, no actuator command is written, no mode or control
\* update is executed and the run state is never reached.
C4_HaltAbsorbing ==
    /\ []((pc \in DiePcs) => ~ahrs_on /\ ~started /\ ~msg_running)
    /\ [][(pc \in DiePcs) => (pc' = pc \/ pc' = "halted")]_vars
    /\ [](pc = "halted" =>
            /\ ~ie /\ hs = <<>>
            /\ ~ahrs_on /\ ~started /\ ~msg_running /\ msg_error)
    /\ [][pc = "halted" =>
            /\ pc' = "halted"
            /\ UNCHANGED <<ie, runv, bootv, outv, actv, rxv, ahrsv,
                           modev, ctlv, conv, nirq>>]_vars

\* Halted at the accelerometer check after a key had been served, while
\* interrupts were still to come.
C4_Witness ==
    /\ pc = "halted" /\ halt_at = "acc" /\ ~ie /\ msg_error
    /\ con_sets > 0 /\ nirq < MaxIrq

\* C5: modes_update called with the switch equal to the recorded value
\* leaves the mode flags and the recorded value as they were.
C5_UnchangedSwitchNoOp ==
    sw_read = old_prev_sw => modes = old_modes /\ prev_sw = old_prev_sw

\* Heading-hold is set, the switch has not moved and the selector points at
\* another mode bit: the second tick has left the flags as they were.
C5_Witness ==
    /\ pc = "loop_delay" /\ nticks > 1
    /\ sw_read = old_prev_sw /\ sw_read = 1
    /\ modes = 2
    /\ ModeNum(rx_right_pot) = 2

\* C6 as stated: after modes_update has seen a switch edge and recorded the
\* new switch state, the mode bit at index (selector + 36) / 49 equals that
\* state and every other bit is 0.
C6_EdgeSetsSelectedBit ==
    (/\ pc \notin {"mu_rec", "mu_num"}
     /\ sw_read # old_prev_sw
     /\ prev_sw = sw_read) => modes = sw_read * (2 ^ num)

\* C7: at the end of a tick in which heading-hold is clear the yaw setpoint
\* equals the yaw estimate of that tick's snapshot.
C7_SetpointFollowsYaw ==
    ((pc \in SetPcs \/ (pc = "loop_delay" /\ nticks > 0)) /\ ~HeadingHold) =>
        set_yaw = cur_yaw

\* Heading-hold clear, the yaw stick hard over and the estimate away from
\* the old setpoint.
C7_Witness ==
    /\ pc = "loop_delay" /\ nticks > 1 /\ ~HeadingHold
    /\ rx_used[2] = 255
    /\ cur_yaw = -32698 /\ set_yaw = cur_yaw

\* C8 as stated: after a run of heading-hold ticks the setpoint is the
\* setpoint before the run plus the sum of the stick deltas.
C8_SetpointIsPlainSum ==
    hh_n > 0 => set_yaw = hh_base + hh_sum

\* C8 as amended: the setpoint is that sum reduced modulo 2^16 into
\* -32768..32767.
C8_SetpointIsWrappedSum ==
    hh_n > 0 => set_yaw = ToInt16(hh_base + hh_sum)

\* A run of heading-hold ticks whose sum has left the 16-bit range.
C8_Witness ==
    /\ hh_n > 0 /\ hh_sum # 0
    /\ hh_base + hh_sum < -32768
    /\ set_yaw = hh_base + hh_sum + 65536

\* C9 as stated: the gate halts at the gyro check only when the 20 retries
\* are used up.
C9_HaltOnlyWhenExhausted ==
    halt_at = "gyro" => gyro_polls = 20

\* C9 as amended: an out-of-band reading is fatal at once, whatever is left
\* of the 20 re-polls; the check is passed only when the first reading and
\* all 20 re-polls were in band.
C9_OutOfBandIsFatal ==
    /\ gyro_oob <=> (pc = "die_gyro" \/ halt_at = "gyro")
    /\ (pc = "die_gyro" \/ halt_at = "gyro") =>
          cnt = gyro_polls /\ cnt <= 20
    /\ halt_at = "gyro" => pc = "halted"
    /\ (/\ pc \notin {"boot", "adc", "nosig", "ident", "gyro", "die_ident",
                      "die_gyro"}
        /\ halt_at \notin {"ident", "gyro"}) => gyro_polls = 20

\* Halted at the gyro check on an out-of-band reading after some in-band
\* re-polls, with retries left.
C9_Witness ==
    /\ halt_at = "gyro" /\ gyro_oob
    /\ gyro_polls > 0 /\ gyro_polls < 20

C10_Motor == [ch \in KeyDown \cup KeyUp |->
                 CASE ch = "a" -> 0 [] ch = "s" -> 1 [] ch = "d" -> 2
                   [] ch = "f" -> 3 [] ch = "q" -> 0 [] ch = "w" -> 1
                   [] ch = "e" -> 2 [] ch = "r" -> 3]

\* C10 as stated: the motor test values stay within 0..255; a, s, d, f
\* decrement the value of motor 0, 1, 2, 3 unless it is 0 and q, w, e, r
\* increment it unless it is 255, changing no other value; any other
\* character changes no value, writes no command and prints nothing; and
\* the line printed for a command is one state report, the four test
\* values as they stand.
C10_ConsoleCommands ==
    [][/\ \A i \in Motors : motor'[i] >= 0 /\ motor'[i] <= 255
       /\ nkeys' = nkeys + 1 =>
            IF last_ch' \in {"a", "s", "d", "f"}
            THEN /\ motor'[C10_Motor[last_ch']] =
                      IF motor[C10_Motor[last_ch']] = 0 THEN 0
                      ELSE motor[C10_Motor[last_ch']] - 1
                 /\ \A j \in Motors \ {C10_Motor[last_ch']} :
                      motor'[j] = motor[j]
            ELSE IF last_ch' \in {"q", "w", "e", "r"}
            THEN /\ motor'[C10_Motor[last_ch']] =
                      IF motor[C10_Motor[last_ch']] = 255 THEN 255
                      ELSE motor[C10_Motor[last_ch']] + 1
                 /\ \A j \in Motors \ {C10_Motor[last_ch']} :
                      motor'[j] = motor[j]
            ELSE UNCHANGED <<motor, actv, outv, hs>>
       /\ nreports' = nreports + 1 =>
            report' = <<motor[0], motor[1], motor[2], motor[3]>>]_vars

\* C11: from cli() to sei() in control_update interrupts are off, so the
\* estimator cannot run between the attitude reads: each of cur_pitch,
\* cur_roll, cur_yaw already copied is computed from the attitude fields as
\* they still stand when the last one is read; outside the copy, in the run
\* state, interrupts are enabled.
C11_AttitudeSnapshotAtomic ==
    /\ pc \in SnapshotPcs => ~ie
    /\ pc \in {"cu_roll", "cu_yaw", "cu_sei"} =>
          cur_pitch = CurAngle(ahrs_pitch, ahrs_pitch_rate)
    /\ pc \in {"cu_yaw", "cu_sei"} =>
          cur_roll = CurAngle(ahrs_roll, ahrs_roll_rate)
    /\ pc = "cu_sei" => cur_yaw = CurYaw(ahrs_yaw, ahrs_yaw_rate)
    /\ pc \in RunPcs \ SnapshotPcs => ie

\* The estimator has run before the tick, the copy of its cycle is complete
\* and interrupts are still to be delivered.
C11_Witness ==
    /\ pc = "cu_sei" /\ ~ie
    /\ nirq > 0 /\ nirq < MaxIrq
    /\ cur_pitch = 2100 /\ cur_roll = -302 /\ cur_yaw = -32767

\* C12 as stated: the throttle and the three stick values one tick of
\* control_update computes with are the four channels as they stood at one
\* instant, the tick's first stick read: no receiver write falls between the
\* stick reads and the throttle read.
C12_ReceiverSnapshotConsistent ==
    pc \in SetPcs => rx_used = rx_first

\* C13 as stated: every actuator_set call is made by control_update, once
\* per motor and tick, and none before the Safety Gate has passed.
C13_SingleWriter ==
    /\ con_sets = 0
    /\ \A i \in Motors : act_by[i] \in {"none", "mixer"}
    /\ \A i \in Motors :
          mix_sets[i] = nticks
                        + (IF pc \in SetPcs /\ SetIndex(pc) > i THEN 1 ELSE 0)
    /\ pc \notin RunPcs => \A i \in Motors : act_by[i] = "none"

\* C13 as amended: the commands have two writers.  control_update writes
\* each motor's command exactly once per tick, in motor order, and only in
\* the run state; the console handler writes one motor's command per
\* accepted key, before the gate has passed as well as between the writes
\* of a tick.
C13_TwoWriters ==
    /\ \A i \in Motors :
          mix_sets[i] = nticks
                        + (IF pc \in SetPcs /\ SetIndex(pc) > i THEN 1 ELSE 0)
    /\ nticks > 0 => pc \in RunPcs
    /\ con_sets <= nkeys
    /\ \A i \in Motors :
          /\ act_by[i] = "none" => actuator[i] = 0 /\ mix_sets[i] = 0
          /\ act_by[i] = "mixer" =>
                /\ mix_sets[i] > 0
                /\ (pc \in SetPcs /\ SetIndex(pc) <= i) \/ actuator[i] = mix[i]
          /\ act_by[i] = "console" =>
                con_sets > 0 /\ actuator[i] = TestCommand(motor[i])

\* Two keys struck, the later one inside the second tick after its write
\* of motor 0: motor 0 carries the console's command, motor 1 the mixer's,
\* motors 2 and 3 are still to be written by this tick.
C13_Witness ==
    /\ pc = "cu_set2" /\ nticks = 1
    /\ con_sets = 2
    /\ act_by[0] = "console" /\ act_by[1] = "mixer"
    /\ mix_sets = [i \in Motors |-> IF i < 2 THEN 2 ELSE 1]

\* C14: a tick with the three sticks at 128, the attitude angles and rates
\* zero and heading-hold off hands four equal commands to actuator_set, each
\* min(t << 7, 32000) for the throttle t the tick read: 16384 for t = 128,
\* 32000 for t = 255.
C14_NeutralSticksGiveThrottle ==
    (/\ pc = "loop_delay" /\ nticks > 0
     /\ rx_used[2] = 128 /\ rx_used[3] = 128 /\ rx_used[4] = 128
     /\ cur_pitch = 0 /\ cur_roll = 0 /\ cur_yaw = 0
     /\ ~HeadingHold) =>
        /\ \A i \in Motors :
              actuator[i] = IF rx_used[1] * 128 < 32000
                            THEN rx_used[1] * 128 ELSE 32000
        /\ rx_used[1] = 128 => actuator = [i \in Motors |-> 16384]
        /\ rx_used[1] = 255 => actuator = [i \in Motors |-> 32000]

\* A tick at full throttle, heading-hold off: all four commands sit on the
\* upper clamp bound.
C14_Witness ==
    /\ pc = "loop_delay" /\ nticks > 0 /\ ~HeadingHold
    /\ rx_used = <<255, 128, 128, 128>>
    /\ cur_pitch = 0 /\ cur_roll = 0 /\ cur_yaw = 0
    /\ actuator = [i \in Motors |-> 32000]

\* The easing law as the claim words it.
C15_Law(e) ==
    IF -1024 < e /\ e < 1024 THEN Asr(e, 2)
    ELSE IF e >= 1024 THEN e - 768
    ELSE e + 768

\* The error e of a tick is eased to d by the claim's law, the output for
\* e + 1 is not below d, and next to the deadband boundary it is at most
\* d + 1.
C15_Step(e, d) ==
    /\ d = C15_Law(e)
    /\ e < 32767 => Ease(e + 1) >= d
    /\ e \in {1023, -1024} => Ease(e + 1) - d <= 1

\* C15: the easing that control_update applies to the pitch and roll errors
\* is e >> 2 inside the deadband and e -/+ 0x300 outside; the outputs for
\* 0x3ff and 0x400, and for -0x400 and -0x3ff, differ by at most 1; and for
\* every 16-bit error e the output for e + 1 is not below the output for e,
\* so the law is non-decreasing over the whole range.
C15_EasingContinuousMonotone ==
    /\ C15_Step(err_pitch, dest_pitch)
    /\ C15_Step(err_roll, dest_roll)

\* A tick whose roll error sits on the last value inside the deadband: it
\* is eased to 255 and its neighbour 0x400 to 256.
C15_Witness ==
    /\ pc \in SetPcs
    /\ err_roll = 1023 /\ dest_roll = 255
    /\ Ease(err_roll + 1) = 256

\* C16 as stated: the receiver check lets the gate pass only when the
\* throttle channel reads at most 5 at that moment; with the throttle above
\* 5 it halts.
C16_RaisedThrottleRefused ==
    [][(pc \in {"rx_sig", "rx_thr"} /\ pc' = "start") =>
            rx_co_throttle <= 5]_vars

\* C16 as amended: the throttle is looked at only while a receiver signal
\* is detected.  With rx_no_signal non-zero the check passes whatever the
\* throttle channel holds; with a signal the gate passes only with the
\* throttle at most 5 and halts with "ERROR" when it is above 5.
C16_ThrottleCheckedUnderSignal ==
    /\ [][(pc = "rx_sig" /\ pc' # "rx_sig") =>
            /\ chk_no_signal' = rx_no_signal
            /\ pc' = IF rx_no_signal = 0 THEN "rx_thr" ELSE "start"]_vars
    /\ [][(pc = "rx_thr" /\ pc' # "rx_thr") =>
            /\ chk_throttle' = rx_co_throttle
            /\ pc' = IF rx_co_throttle > 5 THEN "die_rx" ELSE "start"]_vars
    /\ [][(pc = "die_rx" /\ pc' # "die_rx") =>
            pc' = "halted" /\ ~ie' /\ msg_error' /\ halt_at' = "rx"]_vars
    /\ [](started => chk_no_signal > 0 \/ (chk_throttle >= 0 /\ chk_throttle <= 5))
    /\ []((pc = "die_rx" \/ halt_at = "rx") =>
            chk_no_signal = 0 /\ chk_throttle > 5 /\ ~started)

\* Halted at the receiver check: a signal was present and the throttle read
\* 200; the receiver has lowered the throttle before die() disabled the
\* interrupts.
C16_Witness ==
    /\ pc = "halted" /\ halt_at = "rx"
    /\ chk_no_signal = 0 /\ chk_throttle = 200 /\ rx_co_throttle = 0
    /\ ~started /\ msg_error

\* C17 as stated: when modes_update returns with the mode flags different
\* from what they were when it was called, the recorded switch value differs
\* from the one recorded before the call, whatever the receiver interrupt
\* does to the switch meanwhile.
C17_ModesChangeOnlyOnEdge ==
    (pc = "cu_co" /\ modes # old_modes) => prev_sw # old_prev_sw

\* C19: at most one bit of the mode flags is 1, so heading-hold and
\* pan-tilt are never enabled together.
C19_AtMostOneMode ==
    /\ Cardinality({i \in 0 .. 7 : Bit(modes, i) = 1}) <= 1
    /\ ~(HeadingHold /\ ModeSet(modes, MODE_PANTILT_ENABLE))

\* Heading-hold was enabled and a modes_update call with the selector on
\* pan-tilt has enabled pan-tilt: heading-hold is gone.
C19_Witness ==
    /\ pc = "cu_co"
    /\ old_modes = 2 /\ num = 2 /\ prev_sw = 1
    /\ modes = 4

\* The mode flags with the armed bit inverted.
C20_OtherArmed == IF ModeSet(modes, MODE_MOTORS_ARMED) THEN modes - 1
                  ELSE modes + 1

\* C20: the four commands and the yaw setpoint a tick of control_update
\* produces are those it produces from the same setpoint, sticks, throttle
\* and attitude snapshot with MODE_MOTORS_ARMED inverted.
C20_ArmedBitIgnored ==
    (pc \in SetPcs \/ (pc = "loop_delay" /\ nticks > 0)) =>
        LET r == Mixer(C20_OtherArmed, yaw_in, rx_used[2], rx_used[3],
                       rx_used[4], cur_pitch, cur_roll, cur_yaw, rx_used[1])
        IN /\ mix = r.out
           /\ pc = "loop_delay" => actuator = r.out
           /\ set_yaw = r.set_yaw

\* A finished tick with the armed bit clear and the throttle raised: every
\* motor has a non-zero command.
C20_Witness ==
    /\ pc = "loop_delay" /\ nticks > 0
    /\ ~ModeSet(modes, MODE_MOTORS_ARMED)
    /\ rx_used[1] = 255
    /\ \A i \in Motors : actuator[i] > 0

\* C18: the gyro loop re-polls at most 20 times, the accelerometer loop
\* takes exactly 16 samples, and from boot, whatever the sensors read and
\* whichever interrupts are served, the system leaves the sanity checks: it
\* eventually is in the run state or halted.
C18_GateTerminates ==
    /\ [](gyro_polls <= 20 /\ cnt <= 21)
    /\ [](pc = "acc" => cnt <= 16)
    /\ [](acc_len # -1 => cnt = 16)
    /\ <>(pc = "halted" \/ (pc \in RunPcs /\ started))

\* The gate passed after all 20 gyro re-polls and all 16 accelerometer
\* samples, with interrupts delivered on the way.
C18_Witness ==
    /\ pc = "loop_delay" /\ started /\ nticks = 0 /\ nirq = MaxIrq
    /\ gyro_polls = 20 /\ cnt = 16
    /\ acc_len >= 16128 /\ acc_len <= 16496

====
